---- MODULE Spec2Model ----
(***************************************************************************)
(* GS1 EPC binary decoding (rust-gs1): the header dispatcher, the          *)
(* partition tables, the identifier decoders, indicator extraction, the    *)
(* GS1 checksum and the URI / element-string formatters.                   *)
(*                                                                         *)
(* Representation.  A byte buffer is a sequence of 0..255.  Unsigned       *)
(* integers are naturals; the inputs are drawn so that every field value   *)
(* stays below 2^31.  A Rust String of decimal digits is a sequence of     *)
(* digits 0..9 until it is formatted; formatted text is a string.  The     *)
(* alphanumeric serial is a sequence of character codes 1..127.            *)
(* A Result is a record: kind = "Ok" (with value), "Err" (with error, the  *)
(* name of the error type that was boxed) or "Panic" (the call aborted).   *)
(***************************************************************************)
EXTENDS Integers, Sequences, FiniteSets, TLC

VARIABLES data, entry, pc, result, uri, tag_uri, gs1, arg, ret

\* data .. gs1: a buffer, its decoding and the texts of the identifier.
\* arg, ret: the argument and the return value of a helper function that is
\* applied on its own (the checksum, indicator extraction, the string
\* reader, the bit cursor).
vars == <<data, entry, pc, result, uri, tag_uri, gs1, arg, ret>>

(***************************************************************************)
(* Results                                                                 *)
(***************************************************************************)
Ok(v) == [kind |-> "Ok", value |-> v]

Err(e) == [kind |-> "Err", error |-> e]

Panic == [kind |-> "Panic"]

NoResult == [kind |-> "None"]

(***************************************************************************)
(* Text helpers: Rust's integer and character formatting.                  *)
(***************************************************************************)
DigitChar == <<"0", "1", "2", "3", "4", "5", "6", "7", "8", "9">>

HexChar == <<"0", "1", "2", "3", "4", "5", "6", "7", "8", "9",
             "A", "B", "C", "D", "E", "F">>

\* The control characters, codes 1..31.
ControlAscii ==
   <<
      "", "", "", "", "", "", "", "",
      "\t", "\n", "", "\f", "\r", "", "", "",
      "", "", "", "", "", "", "", "",
      "", "", "", "", "", "", "" >>

\* The character of code 96, taken out of a two-character string (a string
\* cannot hold it without the apostrophe that follows).
GraveAccent == SubSeq("`'", 1, 1)

\* The printable ASCII characters, codes 32..126.
PrintableAscii ==
   <<
      " ", "!", "\"", "#", "$", "%", "&", "'", "(", ")", "*", "+", ",", "-", ".", "/",
      "0", "1", "2", "3", "4", "5", "6", "7", "8", "9", ":", ";", "<", "=", ">", "?",
      "@", "A", "B", "C", "D", "E", "F", "G", "H", "I", "J", "K", "L", "M", "N", "O",
      "P", "Q", "R", "S", "T", "U", "V", "W", "X", "Y", "Z", "[", "\\", "]", "^", "_",
      GraveAccent, "a", "b", "c", "d", "e", "f", "g", "h", "i", "j", "k", "l", "m", "n", "o",
      "p", "q", "r", "s", "t", "u", "v", "w", "x", "y", "z", "{", "|", "}", "~" >>

\* The character of code 127.
Delete == ""

\* value as char, for a non-zero 7-bit code (read_string drops code 0).
Chr(c) ==
    IF c < 32 THEN ControlAscii[c]
    ELSE IF c = 127 THEN Delete
    ELSE PrintableAscii[c - 31]

\* u64::to_string: the decimal digits, most significant first, no padding.
RECURSIVE to_string(_)
to_string(n) == IF n < 10 THEN <<n>> ELSE Append(to_string(n \div 10), n % 10)

\* str::parse::<u64> on a string of decimal digits: the empty string is an
\* error (ParseIntError), leading zeros are accepted.
RECURSIVE parse_digits(_, _)
parse_digits(s, acc) ==
    IF s = <<>> THEN acc ELSE parse_digits(Tail(s), 10 * acc + Head(s))

parse_u64(s) == IF s = <<>> THEN Err("ParseIntError") ELSE Ok(parse_digits(s, 0))

\* A digit string as text.
RECURSIVE Str(_)
Str(s) == IF s = <<>> THEN "" ELSE DigitChar[Head(s) + 1] \o Str(Tail(s))

\* Display of an unsigned integer ("{}").
Show(n) == Str(to_string(n))

\* Display of a String of character codes ("{}").
RECURSIVE ShowText(_)
ShowText(s) == IF s = <<>> THEN "" ELSE Chr(Head(s)) \o ShowText(Tail(s))

RECURSIVE Zeros(_)
Zeros(n) == IF n <= 0 THEN <<>> ELSE <<0>> \o Zeros(n - 1)

\* A mutant of zero_pad: pads on the right.
zero_pad_right(input, digits) == input \o Zeros(digits - Len(input))

\* pad(digits, '0', Alignment::Right, false): zeros on the left up to the
\* width, the input unchanged when it is already as long or longer.
zero_pad(input, digits) == Zeros(digits - Len(input)) \o input

IsAlnum(c) == \/ c \in 48..57
              \/ c \in 65..90
              \/ c \in 97..122

\* A mutant of uri_encode: leaves every character as it is.
RECURSIVE uri_encode_none(_)
uri_encode_none(input) ==
    IF input = <<>> THEN ""
    ELSE Chr(Head(input)) \o uri_encode_none(Tail(input))

\* utf8_percent_encode(input, NON_ALPHANUMERIC): every byte that is not an
\* ASCII letter or digit becomes %XX (upper-case hex).
RECURSIVE uri_encode(_)
uri_encode(input) ==
    IF input = <<>> THEN ""
    ELSE (IF IsAlnum(Head(input))
          THEN Chr(Head(input))
          ELSE "%" \o HexChar[(Head(input) \div 16) + 1]
                   \o HexChar[(Head(input) % 16) + 1])
         \o uri_encode(Tail(input))

(***************************************************************************)
(* Bit cursor (bitreader::BitReader)                                       *)
(***************************************************************************)
RECURSIVE Pow2(_)
Pow2(n) == IF n = 0 THEN 1 ELSE 2 * Pow2(n - 1)

\* Bit i (0-based, most significant bit of byte 1 first) of a buffer.
BitAt(bytes, i) == (bytes[(i \div 8) + 1] \div Pow2(7 - (i % 8))) % 2

BitReaderNew(bytes) == [bytes |-> bytes, position |-> 0]

remaining(reader) == 8 * Len(reader.bytes) - reader.position

RECURSIVE read_bits(_, _, _, _)
read_bits(bytes, from, n, acc) ==
    IF n = 0 THEN acc
    ELSE read_bits(bytes, from + 1, n - 1, 2 * acc + BitAt(bytes, from))

\* A mutant of read_value: least significant bit first.
RECURSIVE read_bits_lsb(_, _, _)
read_bits_lsb(bytes, from, n) ==
    IF n = 0 THEN 0
    ELSE BitAt(bytes, from) + 2 * read_bits_lsb(bytes, from + 1, n - 1)

read_value_lsb(reader, bit_count, maximum_count) ==
    IF bit_count = 0 THEN [kind |-> "Ok", value |-> 0, reader |-> reader]
    ELSE IF bit_count > maximum_count
    THEN [kind |-> "Err", error |-> "BitReaderError", reader |-> reader]
    ELSE IF reader.position + bit_count > 8 * Len(reader.bytes)
    THEN [kind |-> "Err", error |-> "BitReaderError", reader |-> reader]
    ELSE [kind |-> "Ok",
          value |-> read_bits_lsb(reader.bytes, reader.position, bit_count),
          reader |-> [reader EXCEPT !.position = @ + bit_count]]

\* BitReader::read_value: the next bit_count bits, most significant first;
\* TooManyBitsForType when the width exceeds the type, NotEnoughData when
\* fewer bits remain; the position advances only on success.
read_value(reader, bit_count, maximum_count) ==
    IF bit_count = 0 THEN [kind |-> "Ok", value |-> 0, reader |-> reader]
    ELSE IF bit_count > maximum_count
    THEN [kind |-> "Err", error |-> "BitReaderError", reader |-> reader]
    ELSE IF reader.position + bit_count > 8 * Len(reader.bytes)
    THEN [kind |-> "Err", error |-> "BitReaderError", reader |-> reader]
    ELSE [kind |-> "Ok",
          value |-> read_bits(reader.bytes, reader.position, bit_count, 0),
          reader |-> [reader EXCEPT !.position = @ + bit_count]]

read_u8(reader, bit_count) == read_value(reader, bit_count, 8)

read_u32(reader, bit_count) == read_value(reader, bit_count, 32)

read_u64(reader, bit_count) == read_value(reader, bit_count, 64)

(***************************************************************************)
(* Header table and dispatcher (epc/mod.rs)                                *)
(***************************************************************************)
\* EPC Table 14-1: the header codes of enum EPCBinaryHeader.
EPCBinaryHeader ==
    [Unprogrammed |-> 0, GTDI96 |-> 44, GSRN96 |-> 45, GSRNP |-> 46,
     USDoD96 |-> 47, SGITN96 |-> 48, SSCC96 |-> 49, SGLN96 |-> 50,
     GRAI96 |-> 51, GIAI96 |-> 52, GID96 |-> 53, SGITN198 |-> 54,
     GRAI170 |-> 55, GIAI202 |-> 56, SGLN195 |-> 57, GTDI113 |-> 58,
     ADIVAR |-> 59, CPI96 |-> 60, CPIVAR |-> 61, GDTI174 |-> 62,
     SGCN96 |-> 63, ITIP110 |-> 64, ITIP212 |-> 65]

HeaderCodes == {EPCBinaryHeader[n] : n \in DOMAIN EPCBinaryHeader}

\* A mutant of try_from: every byte is taken for a header of the table.
try_from_unchecked(byte) == Ok(byte)

\* EPCBinaryHeader::try_from(u8), derived by TryFromPrimitive.
try_from(byte) ==
    IF byte \in HeaderCodes THEN Ok(byte) ELSE Err("TryFromPrimitiveError")

\* A mutant of take_header: the header byte is left in the returned slice.
take_header_keep(bytes) ==
    IF Len(bytes) = 0 THEN Panic
    ELSE LET header == try_from(bytes[1]) IN
         IF header.kind # "Ok" THEN header
         ELSE Ok([data |-> bytes, header |-> header.value])

\* take_header: data[0] is an index out of bounds on the empty slice (the
\* call panics); an unknown byte is the conversion's error.
take_header(bytes) ==
    IF Len(bytes) = 0 THEN Panic
    ELSE LET header == try_from(bytes[1]) IN
         IF header.kind # "Ok" THEN header
         ELSE Ok([data |-> Tail(bytes), header |-> header.value])

(***************************************************************************)
(* Indicator extraction (util.rs, epc/sgtin.rs)                            *)
(***************************************************************************)
\* A mutant of extract_indicator: the empty remainder is read as item 0.
extract_indicator_lenient(item, item_digits) ==
    LET item_str == zero_pad(to_string(item), item_digits) IN
    Ok([item |-> parse_digits(Tail(item_str), 0), indicator |-> Head(item_str)])

\* A mutant of extract_indicator: the item string is not padded.
extract_indicator_unpadded(item, item_digits) ==
    LET item_str == to_string(item)
        parsed   == parse_u64(Tail(item_str)) IN
    IF parsed.kind # "Ok" THEN parsed
    ELSE Ok([item |-> parsed.value, indicator |-> Head(item_str)])

\* util::extract_indicator: the first character of the padded item string
\* is the indicator, the rest re-parsed is the item.
extract_indicator(item, item_digits) ==
    LET item_str == zero_pad(to_string(item), item_digits)
        parsed   == parse_u64(Tail(item_str)) IN
    IF parsed.kind # "Ok" THEN parsed
    ELSE Ok([item |-> parsed.value, indicator |-> Head(item_str)])

(***************************************************************************)
(* Trade item: SGTIN-96 and SGTIN-198 (epc/sgtin.rs)                       *)
(***************************************************************************)
\* A mutant of sgtin_company_digits: a constant width.
sgtin_company_digits_fixed(partition) == 12

sgtin_company_digits(partition) == 12 - partition

sgtin_item_digits(partition) == 13 - sgtin_company_digits(partition)

\* A mutant of the trade-item partition_bits: partition 7 gets a row.
sgtin_partition_bits_default(partition) ==
    CASE partition = 0 -> Ok(<<40, 4>>)
      [] partition = 1 -> Ok(<<37, 7>>)
      [] partition = 2 -> Ok(<<34, 10>>)
      [] partition = 3 -> Ok(<<30, 14>>)
      [] partition = 4 -> Ok(<<27, 17>>)
      [] partition = 5 -> Ok(<<24, 20>>)
      [] OTHER -> Ok(<<20, 24>>)

\* partition_bits of epc/sgtin.rs (Table 14-2): any other value panics.
sgtin_partition_bits(partition) ==
    CASE partition = 0 -> Ok(<<40, 4>>)
      [] partition = 1 -> Ok(<<37, 7>>)
      [] partition = 2 -> Ok(<<34, 10>>)
      [] partition = 3 -> Ok(<<30, 14>>)
      [] partition = 4 -> Ok(<<27, 17>>)
      [] partition = 5 -> Ok(<<24, 20>>)
      [] partition = 6 -> Ok(<<20, 24>>)
      [] OTHER -> Panic

\* extract_indicator of epc/sgtin.rs: as util::extract_indicator, with the
\* digit-count taken from the partition.
sgtin_extract_indicator(item, partition) ==
    LET item_str == zero_pad(to_string(item), sgtin_item_digits(partition))
        parsed   == parse_u64(Tail(item_str)) IN
    IF parsed.kind # "Ok" THEN parsed
    ELSE Ok([item |-> parsed.value, indicator |-> Head(item_str)])

\* The reads that decode_sgtin96 and decode_sgtin198 share: filter,
\* partition, partition_bits, company, item, extract_indicator.  The result
\* carries the reader for the serial that follows.
sgtin_fields(bytes) ==
    LET r0 == BitReaderNew(bytes)
        f  == read_u8(r0, 3) IN
    IF f.kind # "Ok" THEN Err(f.error) ELSE
    LET p == read_u8(f.reader, 3) IN
    IF p.kind # "Ok" THEN Err(p.error) ELSE
    LET bits == sgtin_partition_bits(p.value) IN
    IF bits.kind # "Ok" THEN bits ELSE
    LET c == read_u64(p.reader, bits.value[1]) IN
    IF c.kind # "Ok" THEN Err(c.error) ELSE
    LET i == read_u64(c.reader, bits.value[2]) IN
    IF i.kind # "Ok" THEN Err(i.error) ELSE
    LET x == sgtin_extract_indicator(i.value, p.value) IN
    IF x.kind # "Ok" THEN x ELSE
    Ok([filter |-> f.value, partition |-> p.value, company |-> c.value,
        item |-> x.value.item, indicator |-> x.value.indicator,
        reader |-> i.reader])

\* A mutant of decode_sgtin96: company and item are swapped.
decode_sgtin96_swapped(bytes) ==
    LET h == sgtin_fields(bytes) IN
    IF h.kind # "Ok" THEN h ELSE
    LET s == read_u64(h.value.reader, 38) IN
    IF s.kind # "Ok" THEN Err(s.error) ELSE
    Ok([type |-> "SGTIN96", filter |-> h.value.filter,
        partition |-> h.value.partition, company |-> h.value.item,
        item |-> h.value.company, indicator |-> h.value.indicator,
        serial |-> s.value])

decode_sgtin96(bytes) ==
    LET h == sgtin_fields(bytes) IN
    IF h.kind # "Ok" THEN h ELSE
    LET s == read_u64(h.value.reader, 38) IN
    IF s.kind # "Ok" THEN Err(s.error) ELSE
    Ok([type |-> "SGTIN96", filter |-> h.value.filter,
        partition |-> h.value.partition, company |-> h.value.company,
        item |-> h.value.item, indicator |-> h.value.indicator,
        serial |-> s.value])

\* The loop of read_string: num_chars reads of 7 bits, the non-zero values
\* pushed in order.
RECURSIVE read_chars(_, _, _)
read_chars(reader, num_chars, chars) ==
    IF num_chars = 0 THEN Ok(chars)
    ELSE LET v == read_u8(reader, 7) IN
         IF v.kind # "Ok" THEN Err(v.error)
         ELSE read_chars(v.reader, num_chars - 1,
                         IF v.value # 0 THEN Append(chars, v.value) ELSE chars)

Min(a, b) == IF a < b THEN a ELSE b

\* A mutant of read_string: the string ends at the first zero character.
RECURSIVE read_chars_until_nul(_, _, _)
read_chars_until_nul(reader, num_chars, chars) ==
    IF num_chars = 0 THEN Ok(chars)
    ELSE LET v == read_u8(reader, 7) IN
         IF v.kind # "Ok" THEN Err(v.error)
         ELSE IF v.value = 0 THEN Ok(chars)
         ELSE read_chars_until_nul(v.reader, num_chars - 1, Append(chars, v.value))

read_string_until_nul(reader, bits) ==
    read_chars_until_nul(reader, Min(remaining(reader), bits) \div 7, <<>>)

\* A mutant of read_string: the whole budget is read, whatever remains.
read_string_whole_budget(reader, bits) == read_chars(reader, bits \div 7, <<>>)

read_string(reader, bits) ==
    read_chars(reader, Min(remaining(reader), bits) \div 7, <<>>)

decode_sgtin198(bytes) ==
    LET h == sgtin_fields(bytes) IN
    IF h.kind # "Ok" THEN h ELSE
    LET s == read_string(h.value.reader, 140) IN
    IF s.kind # "Ok" THEN s ELSE
    Ok([type |-> "SGTIN198", filter |-> h.value.filter,
        partition |-> h.value.partition, company |-> h.value.company,
        item |-> h.value.item, indicator |-> h.value.indicator,
        serial |-> s.value])

(***************************************************************************)
(* Logistics unit: SSCC-96 (epc/sscc.rs)                                   *)
(***************************************************************************)
company_digits(partition) == 12 - partition

item_digits(partition) == 17 - company_digits(partition)

\* partition_bits of epc/sscc.rs (Table 14-5): any other value panics.
sscc_partition_bits(partition) ==
    CASE partition = 0 -> Ok(<<40, 18>>)
      [] partition = 1 -> Ok(<<37, 21>>)
      [] partition = 2 -> Ok(<<34, 24>>)
      [] partition = 3 -> Ok(<<30, 28>>)
      [] partition = 4 -> Ok(<<27, 31>>)
      [] partition = 5 -> Ok(<<24, 34>>)
      [] partition = 6 -> Ok(<<20, 48>>)
      [] OTHER -> Panic

decode_sscc96(bytes) ==
    LET r0 == BitReaderNew(bytes)
        f  == read_u8(r0, 3) IN
    IF f.kind # "Ok" THEN Err(f.error) ELSE
    LET p == read_u8(f.reader, 3) IN
    IF p.kind # "Ok" THEN Err(p.error) ELSE
    LET bits == sscc_partition_bits(p.value) IN
    IF bits.kind # "Ok" THEN bits ELSE
    LET c == read_u64(p.reader, bits.value[1]) IN
    IF c.kind # "Ok" THEN Err(c.error) ELSE
    LET s == read_u64(c.reader, bits.value[2]) IN
    IF s.kind # "Ok" THEN Err(s.error) ELSE
    LET x == extract_indicator(s.value, item_digits(p.value)) IN
    IF x.kind # "Ok" THEN x ELSE
    Ok([type |-> "SSCC96", filter |-> f.value, partition |-> p.value,
        indicator |-> x.value.indicator, company |-> c.value,
        serial |-> x.value.item])

(***************************************************************************)
(* Returnable asset: GRAI-96 (epc/grai.rs)                                 *)
(***************************************************************************)
Partition(bits, digits) == [bits |-> bits, digits |-> digits]

GraiPartition(company_prefix, asset_type) ==
    [company_prefix |-> company_prefix, asset_type |-> asset_type]

\* A mutant of decode_partition_value: the digit-counts of row 0 are those
\* of the trade-item table.
decode_partition_value_sgtin_digits(partition_value) ==
    CASE partition_value = 0 -> Ok(GraiPartition(Partition(40, 12), Partition(4, 1)))
      [] partition_value = 1 -> Ok(GraiPartition(Partition(37, 11), Partition(7, 1)))
      [] partition_value = 2 -> Ok(GraiPartition(Partition(34, 10), Partition(10, 2)))
      [] partition_value = 3 -> Ok(GraiPartition(Partition(30, 9), Partition(14, 3)))
      [] partition_value = 4 -> Ok(GraiPartition(Partition(27, 8), Partition(17, 4)))
      [] partition_value = 5 -> Ok(GraiPartition(Partition(24, 7), Partition(20, 5)))
      [] partition_value = 6 -> Ok(GraiPartition(Partition(20, 6), Partition(24, 6)))
      [] OTHER -> Err("InvalidPartition")

\* decode_partition_value (Table 14-14): any other value is the boxed
\* error "Invalid partition value".
decode_partition_value(partition_value) ==
    CASE partition_value = 0 -> Ok(GraiPartition(Partition(40, 12), Partition(4, 0)))
      [] partition_value = 1 -> Ok(GraiPartition(Partition(37, 11), Partition(7, 1)))
      [] partition_value = 2 -> Ok(GraiPartition(Partition(34, 10), Partition(10, 2)))
      [] partition_value = 3 -> Ok(GraiPartition(Partition(30, 9), Partition(14, 3)))
      [] partition_value = 4 -> Ok(GraiPartition(Partition(27, 8), Partition(17, 4)))
      [] partition_value = 5 -> Ok(GraiPartition(Partition(24, 7), Partition(20, 5)))
      [] partition_value = 6 -> Ok(GraiPartition(Partition(20, 6), Partition(24, 6)))
      [] OTHER -> Err("InvalidPartition")

decode_grai96(bytes) ==
    LET r0 == BitReaderNew(bytes)
        f  == read_u8(r0, 3) IN
    IF f.kind # "Ok" THEN Err(f.error) ELSE
    LET p == read_u8(f.reader, 3) IN
    IF p.kind # "Ok" THEN Err(p.error) ELSE
    LET grai_partition == decode_partition_value(p.value) IN
    IF grai_partition.kind # "Ok" THEN grai_partition ELSE
    LET c == read_u64(p.reader, grai_partition.value.company_prefix.bits) IN
    IF c.kind # "Ok" THEN Err(c.error) ELSE
    LET a == read_u32(c.reader, grai_partition.value.asset_type.bits) IN
    IF a.kind # "Ok" THEN Err(a.error) ELSE
    LET s == read_u64(a.reader, 38) IN
    IF s.kind # "Ok" THEN Err(s.error) ELSE
    Ok([type |-> "GRAI96", filter |-> f.value, partition |-> p.value,
        company_prefix |-> c.value, asset_type |-> a.value,
        serial |-> s.value])

(***************************************************************************)
(* General identifier: GID-96 (epc/gid.rs)                                 *)
(***************************************************************************)
decode_gid96(bytes) ==
    LET r0 == BitReaderNew(bytes)
        m  == read_u32(r0, 28) IN
    IF m.kind # "Ok" THEN Err(m.error) ELSE
    LET c == read_u32(m.reader, 24) IN
    IF c.kind # "Ok" THEN Err(c.error) ELSE
    LET s == read_u64(c.reader, 36) IN
    IF s.kind # "Ok" THEN Err(s.error) ELSE
    Ok([type |-> "GID96", manager |-> m.value, class |-> c.value,
        serial |-> s.value])

(***************************************************************************)
(* decode_binary (epc/mod.rs)                                              *)
(***************************************************************************)
\* The headers that have an arm of their own in decode_binary's match.
Implemented ==
    {EPCBinaryHeader.SGITN96, EPCBinaryHeader.SGITN198,
     EPCBinaryHeader.SSCC96, EPCBinaryHeader.Unprogrammed}

\* A mutant of decode_binary: a header without a decoder aborts the call.
decode_binary_abort(bytes) ==
    LET t == take_header(bytes) IN
    IF t.kind # "Ok" THEN t ELSE
    CASE t.value.header = EPCBinaryHeader.SGITN96 -> decode_sgtin96(t.value.data)
      [] t.value.header = EPCBinaryHeader.SGITN198 -> decode_sgtin198(t.value.data)
      [] t.value.header = EPCBinaryHeader.SSCC96 -> decode_sscc96(t.value.data)
      [] t.value.header = EPCBinaryHeader.Unprogrammed ->
             Ok([type |-> "Unprogrammed", data |-> t.value.data])
      [] OTHER -> Panic

decode_binary(bytes) ==
    LET t == take_header(bytes) IN
    IF t.kind # "Ok" THEN t ELSE
    CASE t.value.header = EPCBinaryHeader.SGITN96 -> decode_sgtin96(t.value.data)
      [] t.value.header = EPCBinaryHeader.SGITN198 -> decode_sgtin198(t.value.data)
      [] t.value.header = EPCBinaryHeader.SSCC96 -> decode_sscc96(t.value.data)
      [] t.value.header = EPCBinaryHeader.Unprogrammed ->
             Ok([type |-> "Unprogrammed", data |-> t.value.data])
      [] OTHER -> Err("UnimplementedError")

(***************************************************************************)
(* Checksum (checksum.rs)                                                  *)
(***************************************************************************)
\* The loop of gs1_checksum, iterations lo..hi: the i-th digit from the
\* right is added to even when i is even and to odd otherwise.  The two
\* sums are given unreduced; the range is summed by halves, which gives what
\* the loop gives and keeps the evaluation shallow on long strings.
RECURSIVE checksum_sums(_, _, _)
checksum_sums(digits, lo, hi) ==
    IF lo > hi THEN [even |-> 0, odd |-> 0]
    ELSE IF lo = hi
    THEN LET curr == digits[Len(digits) - lo + 1] IN
         IF lo % 2 = 0 THEN [even |-> curr, odd |-> 0]
                       ELSE [even |-> 0, odd |-> curr]
    ELSE LET mid == (lo + hi) \div 2
             l   == checksum_sums(digits, lo, mid)
             r   == checksum_sums(digits, mid + 1, hi) IN
         [even |-> l.even + r.even, odd |-> l.odd + r.odd]

\* even, odd and check are u16: whether one of the additions or the
\* multiplication of gs1_checksum leaves the range of a u16.
gs1_checksum_overflows(input) ==
    LET sums == checksum_sums(input, 1, Len(input)) IN
    3 * sums.odd + sums.even > 65535

\* A mutant of gs1_checksum: the weights of odd and even are exchanged.
gs1_checksum_swapped(input) ==
    LET sums  == checksum_sums(input, 1, Len(input))
        even  == sums.even % 65536
        odd   == sums.odd % 65536
        check == ((((3 * even) % 65536) + odd) % 65536) % 10 IN
    IF check > 0 THEN 10 - check ELSE check

\* The value gs1_checksum returns; where the arithmetic overflows it is the
\* value of a build without overflow checks (wrapping), and a build with
\* overflow checks panics instead (see ApplyChecksum).
gs1_checksum(input) ==
    LET sums  == checksum_sums(input, 1, Len(input))
        even  == sums.even % 65536
        odd   == sums.odd % 65536
        check == ((((3 * odd) % 65536) + even) % 65536) % 10 IN
    IF check > 0 THEN 10 - check ELSE check

(***************************************************************************)
(* Formatters (impl EPC, impl GS1)                                         *)
(***************************************************************************)
\* GS1 General Specifications, Figure 3.2-1 (general.rs).
ApplicationIdentifier ==
    [SSCC |-> 0, GTIN |-> 1, GTINContent |-> 2, Batch |-> 10,
     ProductionDate |-> 11, DueDate |-> 12, PackagingDate |-> 13,
     BestBeforeDate |-> 15, SellByDate |-> 16, ExpirationDate |-> 17,
     InternalProductVariant |-> 20, SerialNumber |-> 21]

\* "({:0>2})" of an Application Identifier.
ShowAI(ai) == "(" \o Str(zero_pad(to_string(ai), 2)) \o ")"

\* The company and indicator+item segments that the trade-item URIs share.
sgtin_segments(v) ==
    Str(zero_pad(to_string(v.company), sgtin_company_digits(v.partition)))
    \o "." \o Show(v.indicator)
    \o Str(zero_pad(to_string(v.item), sgtin_item_digits(v.partition) - 1))

SGTIN96_to_uri(v) ==
    "urn:epc:id:sgtin:" \o sgtin_segments(v) \o "." \o Show(v.serial)

SGTIN96_to_tag_uri(v) ==
    "urn:epc:tag:sgtin-96:" \o Show(v.filter) \o "." \o sgtin_segments(v)
    \o "." \o Show(v.serial)

\* The digit string the trade-item check digit is computed over.
sgtin_element_string(v) ==
    <<v.indicator>>
    \o zero_pad(to_string(v.company), sgtin_company_digits(v.partition))
    \o zero_pad(to_string(v.item), sgtin_item_digits(v.partition) - 1)

SGTIN96_to_gs1(v) ==
    ShowAI(ApplicationIdentifier.GTIN) \o " "
    \o Str(sgtin_element_string(v))
    \o Show(gs1_checksum(sgtin_element_string(v)))
    \o " " \o ShowAI(ApplicationIdentifier.SerialNumber) \o " "
    \o Show(v.serial)

SGTIN198_to_uri(v) ==
    "urn:epc:id:sgtin:" \o sgtin_segments(v) \o "." \o uri_encode(v.serial)

SGTIN198_to_tag_uri(v) ==
    "urn:epc:tag:sgtin-198:" \o Show(v.filter) \o "." \o sgtin_segments(v)
    \o "." \o uri_encode(v.serial)

\* The element string of SGTIN-198: the layout of SGTIN-96's with the
\* serial text as it is.
SGTIN198_to_gs1(v) ==
    ShowAI(ApplicationIdentifier.GTIN) \o " "
    \o Str(sgtin_element_string(v))
    \o Show(gs1_checksum(sgtin_element_string(v)))
    \o " " \o ShowAI(ApplicationIdentifier.SerialNumber) \o " "
    \o ShowText(v.serial)

sscc_segments(v) ==
    Str(zero_pad(to_string(v.company), company_digits(v.partition)))
    \o "." \o Show(v.indicator)
    \o Str(zero_pad(to_string(v.serial), item_digits(v.partition) - 1))

\* A mutant of SSCC96_to_uri: the filter is written into the identity URI.
SSCC96_to_uri_filtered(v) ==
    "urn:epc:id:sscc:" \o Show(v.filter) \o "." \o sscc_segments(v)

SSCC96_to_uri(v) == "urn:epc:id:sscc:" \o sscc_segments(v)

SSCC96_to_tag_uri(v) ==
    "urn:epc:tag:sscc-96:" \o Show(v.filter) \o "." \o sscc_segments(v)

sscc_element_string(v) ==
    <<v.indicator>>
    \o zero_pad(to_string(v.company), company_digits(v.partition))
    \o zero_pad(to_string(v.serial), item_digits(v.partition) - 1)

SSCC96_to_gs1(v) ==
    ShowAI(ApplicationIdentifier.SSCC) \o " "
    \o Str(sscc_element_string(v))
    \o Show(gs1_checksum(sscc_element_string(v)))

GRAI96_to_uri(v) ==
    "urn:epc:id:grai:" \o Show(v.company_prefix) \o "." \o Show(v.asset_type)
    \o "." \o Show(v.serial)

GRAI96_to_tag_uri(v) ==
    "urn:epc:tag:grai-96:" \o Show(v.filter) \o "." \o Show(v.company_prefix)
    \o "." \o Show(v.asset_type) \o "." \o Show(v.serial)

GID96_to_uri(v) ==
    "urn:epc:id:gid:" \o Show(v.manager) \o "." \o Show(v.class)
    \o "." \o Show(v.serial)

GID96_to_tag_uri(v) ==
    "urn:epc:tag:gid-96:" \o Show(v.manager) \o "." \o Show(v.class)
    \o "." \o Show(v.serial)

\* EPC::to_uri through the trait object.
to_uri(v) ==
    CASE v.type = "SGTIN96" -> SGTIN96_to_uri(v)
      [] v.type = "SGTIN198" -> SGTIN198_to_uri(v)
      [] v.type = "SSCC96" -> SSCC96_to_uri(v)
      [] v.type = "GRAI96" -> GRAI96_to_uri(v)
      [] v.type = "GID96" -> GID96_to_uri(v)
      [] v.type = "Unprogrammed" -> "urn:epc:id:unprogrammed"

\* EPC::to_tag_uri through the trait object.
to_tag_uri(v) ==
    CASE v.type = "SGTIN96" -> SGTIN96_to_tag_uri(v)
      [] v.type = "SGTIN198" -> SGTIN198_to_tag_uri(v)
      [] v.type = "SSCC96" -> SSCC96_to_tag_uri(v)
      [] v.type = "GRAI96" -> GRAI96_to_tag_uri(v)
      [] v.type = "GID96" -> GID96_to_tag_uri(v)
      [] v.type = "Unprogrammed" -> "urn:epc:tag:unprogrammed"

\* The variants that have a GS1 element string.
HasGS1(v) == v.type \in {"SGTIN96", "SGTIN198", "SSCC96"}

\* GS1::to_gs1.
to_gs1(v) ==
    CASE v.type = "SGTIN96" -> SGTIN96_to_gs1(v)
      [] v.type = "SGTIN198" -> SGTIN198_to_gs1(v)
      [] v.type = "SSCC96" -> SSCC96_to_gs1(v)

(***************************************************************************)
(* Inputs: the byte buffers the decoders are applied to.                   *)
(***************************************************************************)
\* Longest payload of arbitrary bytes behind a header byte.
MaxPayloadLen == 2

\* Longest alphanumeric serial that is enumerated.
MaxSerialChars == 2

\* Most bytes appended behind a complete layout.
MaxExtraBytes == 1

RECURSIVE NatToBits(_, _)
NatToBits(v, w) ==
    IF w = 0 THEN <<>> ELSE Append(NatToBits(v \div 2, w - 1), v % 2)

RECURSIVE BitsToBytes(_)
BitsToBytes(bits) ==
    IF bits = <<>> THEN <<>>
    ELSE IF Len(bits) < 8 THEN BitsToBytes(bits \o <<0>>)
    ELSE <<128 * bits[1] + 64 * bits[2] + 32 * bits[3] + 16 * bits[4]
           + 8 * bits[5] + 4 * bits[6] + 2 * bits[7] + bits[8]>>
         \o BitsToBytes(SubSeq(bits, 9, Len(bits)))

\* The bits of a sequence of <<value, width>> fields, in order.
RECURSIVE FieldBits(_)
FieldBits(fields) ==
    IF fields = <<>> THEN <<>>
    ELSE NatToBits(Head(fields)[1], Head(fields)[2]) \o FieldBits(Tail(fields))

RECURSIVE ZeroBytes(_)
ZeroBytes(n) == IF n <= 0 THEN <<>> ELSE <<0>> \o ZeroBytes(n - 1)

\* A header byte followed by the packed fields, zero-filled to len bytes.
Pack(header, fields, len) ==
    LET body == BitsToBytes(FieldBits(fields)) IN
    <<header>> \o body \o ZeroBytes(len - 1 - Len(body))

Fits(v, w) == w >= 31 \/ v < Pow2(w)

\* The field widths used to lay out a payload of partition p (those of
\* row 6 when p is not a row of the table).
SgtinWidths(p) == IF p <= 6 THEN sgtin_partition_bits(p).value ELSE <<20, 24>>

SsccWidths(p) == IF p <= 6 THEN sscc_partition_bits(p).value ELSE <<20, 38>>

GraiWidths(p) ==
    IF p <= 6
    THEN <<decode_partition_value(p).value.company_prefix.bits,
           decode_partition_value(p).value.asset_type.bits>>
    ELSE <<20, 24>>

Filters == {0, 3}

Partitions == 0..7

CompanyValues == {0, 614141, 9521141, 1073741823}

ItemValues == {0, 7, 12, 15, 12345, 712345, 812345, 16777215}

SerialValues == {0, 5678, 6789}

SsccSerialValues == {0, 99999, 262143, 1234567890}

Sgtin96Inputs ==
    {Pack(EPCBinaryHeader.SGITN96,
          <<<<f, 3>>, <<p, 3>>, <<c, SgtinWidths(p)[1]>>,
            <<i, SgtinWidths(p)[2]>>, <<s, 38>>>>, 12) :
       <<f, p, c, i, s>> \in
         {t \in Filters \X Partitions \X CompanyValues \X ItemValues \X SerialValues :
            /\ Fits(t[3], SgtinWidths(t[2])[1])
            /\ Fits(t[4], SgtinWidths(t[2])[2])}}

Sscc96Inputs ==
    {Pack(EPCBinaryHeader.SSCC96,
          <<<<f, 3>>, <<p, 3>>, <<c, SsccWidths(p)[1]>>,
            <<s, SsccWidths(p)[2]>>>>, 12) :
       <<f, p, c, s>> \in
         {t \in Filters \X Partitions \X CompanyValues \X SsccSerialValues :
            /\ Fits(t[3], SsccWidths(t[2])[1])
            /\ Fits(t[4], SsccWidths(t[2])[2])}}

Grai96Inputs ==
    {Pack(EPCBinaryHeader.GRAI96,
          <<<<f, 3>>, <<p, 3>>, <<c, GraiWidths(p)[1]>>,
            <<a, GraiWidths(p)[2]>>, <<s, 38>>>>, 12) :
       <<f, p, c, a, s>> \in
         {t \in Filters \X Partitions \X CompanyValues \X {0, 5, 12345} \X {0, 5678} :
            /\ Fits(t[3], GraiWidths(t[2])[1])
            /\ Fits(t[4], GraiWidths(t[2])[2])}}

Gid96Inputs ==
    {Pack(EPCBinaryHeader.GID96, <<<<m, 28>>, <<c, 24>>, <<s, 36>>>>, 12) :
       <<m, c, s>> \in {0, 123, 952056, 268435455} \X {0, 456, 2718} \X {0, 789, 1414}}

\* The characters of the enumerated serials: NUL, '/', '3', the grave
\* accent, 'a' and DEL.
SerialAlphabet == {0, 47, 51, 96, 97, 127}

RECURSIVE SeqsUpTo(_, _)
SeqsUpTo(S, n) ==
    IF n = 0 THEN {<<>>}
    ELSE SeqsUpTo(S, n - 1) \cup
         {Append(q, x) : q \in {r \in SeqsUpTo(S, n - 1) : Len(r) = n - 1}, x \in S}

RECURSIVE CharFields(_)
CharFields(chars) ==
    IF chars = <<>> THEN <<>> ELSE <<<<Head(chars), 7>>>> \o CharFields(Tail(chars))

Sgtin198Inputs ==
    {Pack(EPCBinaryHeader.SGITN198,
          <<<<3, 3>>, <<p, 3>>, <<614141, SgtinWidths(p)[1]>>,
            <<i, SgtinWidths(p)[2]>>>> \o CharFields(chars), 26) :
       <<p, i, chars>> \in
         {t \in Partitions \X {12, 712345} \X SeqsUpTo(SerialAlphabet, MaxSerialChars) :
            Fits(t[2], SgtinWidths(t[1])[2])}}

\* The payloads of GS1 EPC TDS E.3 and of the decode tests (tests/test_epc.rs).
Examples ==
    { <<48, 116, 37, 123, 247, 25, 78, 64, 0, 0, 26, 133>>,
      <<54, 116, 37, 123, 246, 183, 166, 89, 178, 194, 191, 16, 0, 0, 0, 0, 0,
        0, 0, 0, 0, 0, 0, 0, 0, 0>>,
      <<49, 116, 37, 123, 244, 73, 150, 2, 210, 0, 0, 0>>,
      <<53, 0, 232, 111, 128, 0, 169, 224, 0, 0, 5, 134>>,
      <<51, 118, 69, 31, 212, 12, 14, 64, 0, 0, 22, 46>>,
      <<53, 0, 0, 7, 176, 0, 28, 128, 0, 0, 3, 21>>,
      <<48, 57, 96, 98, 195, 161, 168, 0, 0, 107, 51, 244>>,
      <<0, 176, 122, 20, 12, 95, 156, 81, 64, 0, 3, 238>>,
      <<226, 0, 0, 25, 6, 12, 2, 9, 6, 144, 211, 194>>,
      <<226, 0, 0, 0, 0, 0, 0, 0, 0, 0, 0, 0>> }

\* Every prefix of an example, the empty buffer included.
Truncations == UNION {{SubSeq(b, 1, k) : k \in 0..Len(b)} : b \in Examples}

\* One payload of each partitioned 96-bit layout and partition 0..6, cut
\* to every length from the header byte alone to one byte short.
PartitionPayloads ==
    {Pack(EPCBinaryHeader.SGITN96,
          <<<<3, 3>>, <<p, 3>>, <<5, SgtinWidths(p)[1]>>,
            <<12, SgtinWidths(p)[2]>>, <<5678, 38>>>>, 12) : p \in 0..6}
    \cup {Pack(EPCBinaryHeader.SSCC96,
               <<<<3, 3>>, <<p, 3>>, <<5, SsccWidths(p)[1]>>,
                 <<99999, SsccWidths(p)[2]>>>>, 12) : p \in 0..6}
    \cup {Pack(EPCBinaryHeader.GRAI96,
               <<<<3, 3>>, <<p, 3>>, <<5, GraiWidths(p)[1]>>,
                 <<12, GraiWidths(p)[2]>>, <<5678, 38>>>>, 12) : p \in 0..6}

TruncatedPayloads == {SubSeq(b, 1, k) : b \in PartitionPayloads, k \in 1..11}

\* One trade-item-198 payload of each partition 0..6 with the serial "3/a",
\* cut to every length from the end of the item field (7 bytes) on.
Sgtin198Payloads ==
    {Pack(EPCBinaryHeader.SGITN198,
          <<<<3, 3>>, <<p, 3>>, <<614141, SgtinWidths(p)[1]>>,
            <<12, SgtinWidths(p)[2]>>>> \o CharFields(<<51, 47, 97>>), 26) :
       p \in 0..6}

TruncatedSerials == {SubSeq(b, 1, k) : b \in Sgtin198Payloads, k \in 8..25}

\* An example followed by extra bytes.
RECURSIVE Ones(_)
Ones(n) == IF n <= 0 THEN <<>> ELSE <<255>> \o Ones(n - 1)

Extended == {b \o Ones(k) : b \in Examples, k \in 0..MaxExtraBytes}

\* Every byte value as a header, followed by a short arbitrary payload.
ShortBuffers ==
    {<<h>> \o q : h \in 0..255, q \in SeqsUpTo({0, 176, 255}, MaxPayloadLen)}

Inputs ==
    Sgtin96Inputs \cup Sgtin198Inputs \cup Sscc96Inputs \cup Grai96Inputs
    \cup Gid96Inputs \cup Truncations \cup TruncatedPayloads
    \cup TruncatedSerials \cup Extended
    \cup ShortBuffers

(***************************************************************************)
(* The state machine: a buffer is decoded once, then the identifier is     *)
(* formatted on demand.                                                    *)
(***************************************************************************)
NoText == ""

Init ==
    /\ data \in Inputs
    /\ entry = "none"
    /\ pc = "start"
    /\ result = NoResult
    /\ uri = NoText
    /\ tag_uri = NoText
    /\ gs1 = NoText
    /\ arg = <<>>
    /\ ret = NoResult

\* decode_binary(data)
DecodeBinary ==
    /\ pc = "start"
    /\ entry' = "decode_binary"
    /\ result' = decode_binary(data)
    /\ pc' = "decoded"
    /\ UNCHANGED <<data, uri, tag_uri, gs1, arg, ret>>

\* grai::decode_grai96 applied to the bytes behind a GRAI-96 header.
DecodeGrai96 ==
    /\ pc = "start"
    /\ Len(data) > 0
    /\ data[1] = EPCBinaryHeader.GRAI96
    /\ entry' = "decode_grai96"
    /\ result' = decode_grai96(Tail(data))
    /\ pc' = "decoded"
    /\ UNCHANGED <<data, uri, tag_uri, gs1, arg, ret>>

\* gid::decode_gid96 applied to the bytes behind a GID-96 header.
DecodeGid96 ==
    /\ pc = "start"
    /\ Len(data) > 0
    /\ data[1] = EPCBinaryHeader.GID96
    /\ entry' = "decode_gid96"
    /\ result' = decode_gid96(Tail(data))
    /\ pc' = "decoded"
    /\ UNCHANGED <<data, uri, tag_uri, gs1, arg, ret>>

\* EPC::to_uri on the decoded identifier.
ToUri ==
    /\ pc = "decoded"
    /\ result.kind = "Ok"
    /\ uri = NoText
    /\ uri' = to_uri(result.value)
    /\ UNCHANGED <<data, entry, pc, result, tag_uri, gs1, arg, ret>>

\* EPC::to_tag_uri on the decoded identifier.
ToTagUri ==
    /\ pc = "decoded"
    /\ result.kind = "Ok"
    /\ tag_uri = NoText
    /\ tag_uri' = to_tag_uri(result.value)
    /\ UNCHANGED <<data, entry, pc, result, uri, gs1, arg, ret>>

\* GS1::to_gs1 on the decoded identifier.
ToGs1 ==
    /\ pc = "decoded"
    /\ result.kind = "Ok"
    /\ HasGS1(result.value)
    /\ gs1 = NoText
    /\ gs1' = to_gs1(result.value)
    /\ UNCHANGED <<data, entry, pc, result, uri, tag_uri, arg, ret>>

Next ==
    \/ DecodeBinary
    \/ DecodeGrai96
    \/ DecodeGid96
    \/ ToUri
    \/ ToTagUri
    \/ ToGs1

Spec == Init /\ [][Next]_vars

(***************************************************************************)
(* The helper functions applied on their own.  In these specifications the *)
(* decoding variables stay idle; arg holds the argument, ret the result.   *)
(***************************************************************************)
Idle ==
    /\ data = <<>>
    /\ result = NoResult
    /\ uri = NoText
    /\ tag_uri = NoText
    /\ gs1 = NoText

IdleUnchanged == UNCHANGED <<data, result, uri, tag_uri, gs1>>

\* Longest digit string that is enumerated for the checksum.
MaxChecksumDigits == 3

\* The digit strings of checksum.rs's test (test_gs1_checksum).
ChecksumExamples ==
    { <<0, 3, 6, 0, 8, 4, 3, 9, 5, 1, 9, 6, 8>>,
      <<8, 0, 6, 1, 4, 1, 4, 1, 1, 2, 3, 4, 5>> }

\* A string of 4855 nines: its odd positions hold 2428 nines, and three
\* times their sum is 65556.
LongDigits == [i \in 1..4855 |-> 9]

DigitStrings ==
    SeqsUpTo(0..9, MaxChecksumDigits) \cup ChecksumExamples \cup {LongDigits}

\* What a call of a helper leaves: a value, or a panic.
Return(v) == [kind |-> "Return", value |-> v]

InitChecksum ==
    /\ Idle
    /\ entry = "gs1_checksum"
    /\ pc = "start"
    /\ arg \in DigitStrings
    /\ ret = NoResult

\* gs1_checksum(arg)
ApplyChecksum ==
    /\ pc = "start"
    /\ entry = "gs1_checksum"
    /\ ret' \in IF gs1_checksum_overflows(arg)
                THEN {Return(gs1_checksum(arg)), Panic}
                ELSE {Return(gs1_checksum(arg))}
    /\ pc' = "done"
    /\ UNCHANGED <<entry, arg>>
    /\ IdleUnchanged

NextChecksum == ApplyChecksum

SpecChecksum == InitChecksum /\ [][NextChecksum]_vars

\* Largest raw item field of the enumerated range, and the larger raw
\* fields that are tried besides: the ends of the 18-bit, 24-bit and 31-bit
\* ranges and the powers of ten around the digit-counts.
MaxRaw == 127

LargeRaws ==
    {999, 1000, 9999, 10000, 99999, 100000, 262143, 999999, 1000000,
     16777215, 1234567890, 2147483647}

RawValues == 0..MaxRaw \cup LargeRaws

\* Largest digit-count: the logistics-unit family has 5..11.
MaxItemDigits == 11

InitIndicator ==
    /\ Idle
    /\ pc = "start"
    /\ ret = NoResult
    /\ \/ /\ entry = "extract_indicator"
          /\ arg \in [item : RawValues, item_digits : 1..MaxItemDigits]
       \/ /\ entry = "sgtin_extract_indicator"
          /\ arg \in [item : RawValues, partition : 0..6]

\* util::extract_indicator(item, item_digits)
ExtractIndicator ==
    /\ pc = "start"
    /\ entry = "extract_indicator"
    /\ ret' = extract_indicator(arg.item, arg.item_digits)
    /\ pc' = "done"
    /\ UNCHANGED <<entry, arg>>
    /\ IdleUnchanged

\* epc::sgtin::extract_indicator(item, partition)
SgtinExtractIndicator ==
    /\ pc = "start"
    /\ entry = "sgtin_extract_indicator"
    /\ ret' = sgtin_extract_indicator(arg.item, arg.partition)
    /\ pc' = "done"
    /\ UNCHANGED <<entry, arg>>
    /\ IdleUnchanged

NextIndicator == ExtractIndicator \/ SgtinExtractIndicator

SpecIndicator == InitIndicator /\ [][NextIndicator]_vars

\* Most characters of the enumerated serial fields.
MaxStringChars == 3

\* The bit positions the reader stands at, and the bit budgets that are
\* passed (140 is decode_sgtin198's).
StartBits == {0, 3, 8, 10}

BitBudgets == {0, 6, 7, 13, 14, 21, 140}

\* A reader at bit k of a buffer that holds the characters from bit k on,
\* followed by up to one byte of ones; and readers on 19 bytes of ones,
\* which hold more than 140 bits.
StringArgs ==
    {[reader |-> [bytes |-> BitsToBytes(FieldBits(<<<<0, k>>>> \o CharFields(chars)))
                              \o Ones(e),
                  position |-> k],
      bits |-> b] :
        k \in StartBits, chars \in SeqsUpTo(SerialAlphabet, MaxStringChars),
        e \in 0..1, b \in BitBudgets}
    \cup {[reader |-> [bytes |-> Ones(19), position |-> k], bits |-> 140] :
            k \in StartBits}

InitString ==
    /\ Idle
    /\ entry = "read_string"
    /\ pc = "start"
    /\ arg \in StringArgs
    /\ ret = NoResult

\* read_string(reader, bits)
ReadString ==
    /\ pc = "start"
    /\ entry = "read_string"
    /\ ret' = read_string(arg.reader, arg.bits)
    /\ pc' = "done"
    /\ UNCHANGED <<entry, arg>>
    /\ IdleUnchanged

NextString == ReadString

SpecString == InitString /\ [][NextString]_vars

\* Longest buffer under the cursor, and most reads attempted on it.
MaxCursorBytes == 2

MaxReads == 4

CursorBuffers == SeqsUpTo({0, 116, 165}, MaxCursorBytes)

\* BitReader::new(arg); ret holds the cursor, the widths and values of the
\* successful reads so far, and the last attempt: its width, the bits that
\* remained before it and its outcome.
InitCursor ==
    /\ Idle
    /\ entry = "BitReader"
    /\ pc = "reading"
    /\ arg \in CursorBuffers
    /\ ret = [reader |-> BitReaderNew(arg), widths |-> <<>>, values |-> <<>>,
              attempts |-> 0,
              last |-> [n |-> 0, before |-> 8 * Len(arg), kind |-> "None"]]

\* One read through the cursor: reader.read_u8(n)?, read_u32(n)?, read_u64(n)?.
\* r is what the read of n bits returned.
CursorRead(r, n) ==
    /\ pc = "reading"
    /\ entry = "BitReader"
    /\ ret.attempts < MaxReads
    /\ ret' = [reader |-> r.reader,
               widths |-> IF r.kind = "Ok" THEN Append(ret.widths, n) ELSE ret.widths,
               values |-> IF r.kind = "Ok" THEN Append(ret.values, r.value)
                          ELSE ret.values,
               attempts |-> ret.attempts + 1,
               last |-> [n |-> n, before |-> remaining(ret.reader), kind |-> r.kind]]
    /\ UNCHANGED <<entry, pc, arg>>
    /\ IdleUnchanged

ReadU8 == \E n \in {1, 3, 7} : CursorRead(read_u8(ret.reader, n), n)

ReadU32 == \E n \in {9} : CursorRead(read_u32(ret.reader, n), n)

ReadU64 == \E n \in {12} : CursorRead(read_u64(ret.reader, n), n)

NextCursor == ReadU8 \/ ReadU32 \/ ReadU64

SpecCursor == InitCursor /\ [][NextCursor]_vars

(***************************************************************************)
(* Vocabulary of the properties.  These definitions restate the expected   *)
(* results from the bytes of the buffer by plain arithmetic; they use none *)
(* of the decoder's or the formatter's operators.                          *)
(***************************************************************************)
DecodedBinary == pc = "decoded" /\ entry = "decode_binary"

IsParseFailure(r) == r.kind = "Err" /\ r.error # "UnimplementedError"

\* The unsigned value of the n bits of the buffer that start at bit off.
RECURSIVE SliceValue(_, _, _)
SliceValue(bytes, off, n) ==
    IF n = 0 THEN 0
    ELSE BitAt(bytes, off + n - 1) + 2 * SliceValue(bytes, off, n - 1)

\* The 3-bit partition selector of a buffer with a filter: bits 11..13.
PartitionOf(bytes) == SliceValue(bytes, 11, 3)

FilterOf(bytes) == SliceValue(bytes, 8, 3)

RECURSIVE Pow10(_)
Pow10(n) == IF n = 0 THEN 1 ELSE 10 * Pow10(n - 1)

RECURSIVE NumDigits(_)
NumDigits(n) == IF n < 10 THEN 1 ELSE 1 + NumDigits(n \div 10)

\* The decimal digits of n, with zeros on the left up to w digits.
RECURSIVE DigitSeq(_, _)
DigitSeq(n, w) ==
    IF n < 10 /\ w <= 1 THEN <<n>>
    ELSE Append(DigitSeq(n \div 10, w - 1), n % 10)

RECURSIVE Text(_)
Text(digits) ==
    IF digits = <<>> THEN ""
    ELSE Text(SubSeq(digits, 1, Len(digits) - 1)) \o DigitChar[digits[Len(digits)] + 1]

DecPad(n, w) == Text(DigitSeq(n, w))

Dec(n) == DecPad(n, 1)

\* Company prefix widths of the trade-item and returnable-asset tables.
CompanyBits == <<40, 37, 34, 30, 27, 24, 20>>

\* The GS1 mod-10 weighted sum of a digit run: the rightmost digit has
\* weight 3, the next weight 1, and so on alternately.
RECURSIVE WeightedSum(_)
WeightedSum(digits) ==
    IF digits = <<>> THEN 0
    ELSE LET n == Len(digits) IN
         (IF n > 1 THEN digits[n - 1] ELSE 0) + 3 * digits[n]
         + WeightedSum(SubSeq(digits, 1, n - 2))

\* The digit that completes a run to a multiple of 10.
CheckDigit(digits) == CHOOSE c \in 0..9 : (WeightedSum(digits) + c) % 10 = 0

(***************************************************************************)
(* Properties                                                              *)
(***************************************************************************)

\* C1: on a non-empty buffer decode_binary's outcome is chosen by byte 0:
\* a header with a decoder gives that decoder's result on bytes 1.., any
\* other header of the table gives UnimplementedError, and a byte that is
\* not in the table gives a parse failure.
C1_ThreeWaySplit ==
    (DecodedBinary /\ Len(data) > 0) =>
        /\ data[1] = 48 => result = decode_sgtin96(Tail(data))
        /\ data[1] = 54 => result = decode_sgtin198(Tail(data))
        /\ data[1] = 49 => result = decode_sscc96(Tail(data))
        /\ data[1] = 0 => result.kind = "Ok" /\ result.value.type = "Unprogrammed"
        /\ (data[1] \in (44..65) \ {48, 49, 54}) => result = Err("UnimplementedError")
        /\ (data[1] \notin (44..65) \cup {0}) => IsParseFailure(result)

C1_Witness ==
    /\ DecodedBinary
    /\ Len(data) = 3
    /\ data[1] = 44
    /\ result = Err("UnimplementedError")

\* C2: in every partitioned family a payload whose partition selector is 7
\* is answered by a parse failure returned as an error value.
C2_Partition7ParseFailure ==
    (/\ pc = "decoded"
     /\ Len(data) >= 2
     /\ PartitionOf(data) = 7
     /\ \/ entry = "decode_binary" /\ data[1] \in {48, 54, 49}
        \/ entry = "decode_grai96") => IsParseFailure(result)

\* C3: decode_binary is total: every buffer, the empty one included, is
\* answered by an identifier or an error value.
C3_Total == DecodedBinary => result.kind \in {"Ok", "Err"}

\* C4: a buffer whose byte 0 is 0x00 decodes to Unprogrammed carrying the
\* bytes 1.. unchanged, and no other header gives Unprogrammed.
C4_Unprogrammed ==
    DecodedBinary =>
        /\ (Len(data) > 0 /\ data[1] = 0) =>
               /\ result.kind = "Ok"
               /\ result.value.type = "Unprogrammed"
               /\ Len(result.value.data) = Len(data) - 1
               /\ \A k \in 1..(Len(data) - 1) : result.value.data[k] = data[k + 1]
        /\ (result.kind = "Ok" /\ result.value.type = "Unprogrammed") =>
               (Len(data) > 0 /\ data[1] = 0)

C4_Witness ==
    /\ DecodedBinary
    /\ data = <<0, 176, 255>>
    /\ result.kind = "Ok"
    /\ result.value.data = <<176, 255>>

\* C5: a buffer whose byte 0 is 0xE2 is answered by a parse failure,
\* whatever follows: neither an identifier nor UnimplementedError.
C5_ReservedHeader ==
    (DecodedBinary /\ Len(data) > 0 /\ data[1] = 226) => IsParseFailure(result)

C5_Witness ==
    /\ DecodedBinary
    /\ Len(data) = 12
    /\ data[1] = 226
    /\ result = Err("TryFromPrimitiveError")

\* C6: for the partition of every decoded identifier (0..6), the company
\* digit-count plus the item (asset-type) digit-count is 13 in the
\* trade-item table, 17 in the logistics-unit table and 12 in the
\* returnable-asset table.
C6_DigitTotals ==
    (/\ pc = "decoded"
     /\ result.kind = "Ok"
     /\ result.value.type \in {"SGTIN96", "SGTIN198", "SSCC96", "GRAI96"}) =>
        LET p == result.value.partition IN
        /\ p \in 0..6
        /\ sgtin_company_digits(p) + sgtin_item_digits(p) = 13
        /\ company_digits(p) + item_digits(p) = 17
        /\ decode_partition_value(p).value.company_prefix.digits
             + decode_partition_value(p).value.asset_type.digits = 12

C6_Witness ==
    /\ pc = "decoded"
    /\ entry = "decode_grai96"
    /\ result.kind = "Ok"
    /\ result.value.partition = 0
    /\ decode_partition_value(0).value.asset_type.digits = 0

\* C7: a buffer whose byte 0 is 0x35, followed by at least 11 bytes, makes
\* decode_binary return the GID-96 identifier with manager = the 28 bits
\* after the header, class = the next 24 bits and serial = the next 36
\* bits; its URIs are urn:epc:id:gid:<manager>.<class>.<serial> and
\* urn:epc:tag:gid-96:<manager>.<class>.<serial> in unpadded decimal.
C7_Gid96 ==
    (DecodedBinary /\ Len(data) >= 12 /\ data[1] = 53) =>
        /\ result.kind = "Ok"
        /\ result.value.type = "GID96"
        /\ result.value.manager = SliceValue(data, 8, 28)
        /\ result.value.class = SliceValue(data, 36, 24)
        /\ result.value.serial = SliceValue(data, 60, 36)
        /\ uri # NoText =>
               uri = "urn:epc:id:gid:" \o Dec(SliceValue(data, 8, 28)) \o "."
                     \o Dec(SliceValue(data, 36, 24)) \o "."
                     \o Dec(SliceValue(data, 60, 36))
        /\ tag_uri # NoText =>
               tag_uri = "urn:epc:tag:gid-96:" \o Dec(SliceValue(data, 8, 28)) \o "."
                         \o Dec(SliceValue(data, 36, 24)) \o "."
                         \o Dec(SliceValue(data, 60, 36))

\* C8: a buffer whose byte 0 is 0x33, followed by at least 11 bytes, with a
\* partition p in 0..6, makes decode_binary return the GRAI-96 identifier
\* with filter, partition, company prefix (C(p) bits), asset type
\* (44 - C(p) bits) and serial (38 bits) read in that order; its URIs are
\* urn:epc:id:grai:<company>.<asset>.<serial> and
\* urn:epc:tag:grai-96:<filter>.<company>.<asset>.<serial>.
C8_Grai96 ==
    (DecodedBinary /\ Len(data) >= 12 /\ data[1] = 51 /\ PartitionOf(data) <= 6) =>
        LET p == PartitionOf(data)
            C == CompanyBits[p + 1] IN
        /\ result.kind = "Ok"
        /\ result.value.type = "GRAI96"
        /\ result.value.filter = FilterOf(data)
        /\ result.value.partition = p
        /\ result.value.company_prefix = SliceValue(data, 14, C)
        /\ result.value.asset_type = SliceValue(data, 14 + C, 44 - C)
        /\ result.value.serial = SliceValue(data, 58, 38)
        /\ data = <<51, 118, 69, 31, 212, 12, 14, 64, 0, 0, 22, 46>> =>
               /\ uri \in {NoText, "urn:epc:id:grai:9521141.12345.5678"}
               /\ tag_uri \in {NoText, "urn:epc:tag:grai-96:3.9521141.12345.5678"}

\* The indicator and the item that the padded decimal form of a raw item
\* field of d digits splits into.
SplitWidth(raw, d) == IF NumDigits(raw) > d THEN NumDigits(raw) ELSE d

IndicatorOf(raw, d) == raw \div Pow10(SplitWidth(raw, d) - 1)

ItemOf(raw, d) == raw % Pow10(SplitWidth(raw, d) - 1)

\* C9: a trade-item-96 payload (byte 0 = 0x30) that decodes has filter,
\* partition, company (C(p) bits), item field (44 - C(p) bits, split into
\* indicator and item) and serial (38 bits) read in that order, and is
\* rendered as urn:epc:id:sgtin:<company, 12-p digits>.<indicator><item, p
\* digits>.<serial>, urn:epc:tag:sgtin-96:<filter>.<same fields> and
\* (01) <indicator><company><item><check> (21) <serial>; the payload
\* 3074257BF7194E4000001A85 gives urn:epc:id:sgtin:0614141.812345.6789,
\* urn:epc:tag:sgtin-96:3.0614141.812345.6789 and
\* (01) 80614141123458 (21) 6789.
C9_Sgtin96 ==
    (DecodedBinary /\ Len(data) > 0 /\ data[1] = 48 /\ result.kind = "Ok") =>
        LET p   == PartitionOf(data)
            C   == CompanyBits[p + 1]
            raw == SliceValue(data, 14 + C, 44 - C)
            v   == result.value
            seg == DecPad(v.company, 12 - p) \o "." \o Dec(v.indicator)
                   \o DecPad(v.item, p) IN
        /\ p \in 0..6
        /\ v.type = "SGTIN96"
        /\ v.filter = FilterOf(data)
        /\ v.partition = p
        /\ v.company = SliceValue(data, 14, C)
        /\ v.indicator = IndicatorOf(raw, p + 1)
        /\ v.item = ItemOf(raw, p + 1)
        /\ v.serial = SliceValue(data, 58, 38)
        /\ uri # NoText =>
               uri = "urn:epc:id:sgtin:" \o seg \o "." \o Dec(v.serial)
        /\ tag_uri # NoText =>
               tag_uri = "urn:epc:tag:sgtin-96:" \o Dec(v.filter) \o "." \o seg
                         \o "." \o Dec(v.serial)
        /\ gs1 # NoText =>
               LET run == <<v.indicator>> \o DigitSeq(v.company, 12 - p)
                          \o DigitSeq(v.item, p) IN
               gs1 = "(01) " \o Text(run) \o Dec(CheckDigit(run)) \o " (21) "
                     \o Dec(v.serial)
        /\ data = <<48, 116, 37, 123, 247, 25, 78, 64, 0, 0, 26, 133>> =>
               /\ uri \in {NoText, "urn:epc:id:sgtin:0614141.812345.6789"}
               /\ tag_uri \in {NoText, "urn:epc:tag:sgtin-96:3.0614141.812345.6789"}
               /\ gs1 \in {NoText, "(01) 80614141123458 (21) 6789"}

C9_Witness ==
    /\ DecodedBinary
    /\ data = <<48, 116, 37, 123, 247, 25, 78, 64, 0, 0, 26, 133>>
    /\ result.kind = "Ok"
    /\ uri = "urn:epc:id:sgtin:0614141.812345.6789"
    /\ tag_uri = "urn:epc:tag:sgtin-96:3.0614141.812345.6789"
    /\ gs1 = "(01) 80614141123458 (21) 6789"

\* The characters that occur in the serials of the inputs, as plain text
\* and as they are expected in a URI.
PlainChar ==
    (47 :> "/") @@ (50 :> "2") @@ (51 :> "3") @@ (96 :> SubSeq("`'", 1, 1))
    @@ (97 :> "a") @@ (98 :> "b") @@ (127 :> "")

UriChar ==
    (47 :> "%2F") @@ (50 :> "2") @@ (51 :> "3") @@ (96 :> "%60")
    @@ (97 :> "a") @@ (98 :> "b") @@ (127 :> "%7F")

RECURSIVE MapText(_, _)
MapText(table, chars) ==
    IF chars = <<>> THEN "" ELSE table[Head(chars)] \o MapText(table, Tail(chars))

\* The number of whole 7-bit characters of the serial field of a
\* trade-item-198 buffer: the field starts at bit 58 and has 140 bits.
SerialCharCount(bytes) ==
    (IF 8 * Len(bytes) - 58 < 140 THEN 8 * Len(bytes) - 58 ELSE 140) \div 7

NonZero(c) == c # 0

\* The non-zero characters of the serial field, in order.
SerialChars(bytes) ==
    SelectSeq([k \in 1..SerialCharCount(bytes) |->
                  SliceValue(bytes, 58 + 7 * (k - 1), 7)], NonZero)

\* C10: a trade-item-198 payload (byte 0 = 0x36) that decodes has as serial
\* the non-zero 7-bit characters of its serial field; the identity URI and
\* the tag URI carry the serial with every character that is not a letter
\* or digit as %XX, the element string carries it as it is; the payload
\* 3674257BF6B7A659B2C2BF10 0000... gives
\* urn:epc:id:sgtin:0614141.712345.32a%2Fb,
\* urn:epc:tag:sgtin-198:3.0614141.712345.32a%2Fb and
\* (01) 70614141123451 (21) 32a/b.
C10_Sgtin198 ==
    (DecodedBinary /\ Len(data) > 0 /\ data[1] = 54 /\ result.kind = "Ok") =>
        LET v   == result.value
            p   == v.partition
            seg == DecPad(v.company, 12 - p) \o "." \o Dec(v.indicator)
                   \o DecPad(v.item, p)
            run == <<v.indicator>> \o DigitSeq(v.company, 12 - p)
                   \o DigitSeq(v.item, p) IN
        /\ v.type = "SGTIN198"
        /\ v.serial = SerialChars(data)
        /\ Len(v.serial) <= 20
        /\ uri # NoText =>
               uri = "urn:epc:id:sgtin:" \o seg \o "." \o MapText(UriChar, v.serial)
        /\ tag_uri # NoText =>
               tag_uri = "urn:epc:tag:sgtin-198:" \o Dec(v.filter) \o "." \o seg
                         \o "." \o MapText(UriChar, v.serial)
        /\ gs1 # NoText =>
               gs1 = "(01) " \o Text(run) \o Dec(CheckDigit(run)) \o " (21) "
                     \o MapText(PlainChar, v.serial)
        /\ data = <<54, 116, 37, 123, 246, 183, 166, 89, 178, 194, 191, 16, 0, 0,
                    0, 0, 0, 0, 0, 0, 0, 0, 0, 0, 0, 0>> =>
               /\ uri \in {NoText, "urn:epc:id:sgtin:0614141.712345.32a%2Fb"}
               /\ tag_uri \in {NoText, "urn:epc:tag:sgtin-198:3.0614141.712345.32a%2Fb"}
               /\ gs1 \in {NoText, "(01) 70614141123451 (21) 32a/b"}

C10_Witness ==
    /\ DecodedBinary
    /\ data = <<54, 116, 37, 123, 246, 183, 166, 89, 178, 194, 191, 16, 0, 0,
                0, 0, 0, 0, 0, 0, 0, 0, 0, 0, 0, 0>>
    /\ result.kind = "Ok"
    /\ result.value.serial = <<51, 50, 97, 47, 98>>
    /\ uri = "urn:epc:id:sgtin:0614141.712345.32a%2Fb"
    /\ tag_uri = "urn:epc:tag:sgtin-198:3.0614141.712345.32a%2Fb"
    /\ gs1 = "(01) 70614141123451 (21) 32a/b"

\* A serial of a grave accent and DEL, rendered as it is in the element
\* string and percent-encoded in the identity URI.
Sgtin198GraveAccentSerial ==
    /\ DecodedBinary
    /\ result.kind = "Ok"
    /\ result.value.type = "SGTIN198"
    /\ result.value.serial = <<96, 127>>
    /\ gs1 = "(01) 70614141123451 (21) " \o SubSeq("`'", 1, 1) \o ""
    /\ uri = "urn:epc:id:sgtin:0614141.712345.%60%7F"

\* The shape of the three texts of a decoded logistics-unit-96 identifier:
\* company in 12 - p digits, indicator, serial reference in 4 + p digits.
Sscc96Shape ==
    (DecodedBinary /\ Len(data) > 0 /\ data[1] = 49 /\ result.kind = "Ok") =>
        LET v   == result.value
            p   == v.partition
            seg == DecPad(v.company, 12 - p) \o "." \o Dec(v.indicator)
                   \o DecPad(v.serial, 4 + p)
            run == <<v.indicator>> \o DigitSeq(v.company, 12 - p)
                   \o DigitSeq(v.serial, 4 + p) IN
        /\ v.type = "SSCC96"
        /\ p \in 0..6
        /\ v.filter = FilterOf(data)
        /\ p = PartitionOf(data)
        /\ uri # NoText => uri = "urn:epc:id:sscc:" \o seg
        /\ tag_uri # NoText =>
               tag_uri = "urn:epc:tag:sscc-96:" \o Dec(v.filter) \o "." \o seg
        /\ gs1 # NoText =>
               gs1 = "(00) " \o Text(run) \o Dec(CheckDigit(run))
        /\ data = <<49, 116, 37, 123, 244, 73, 150, 2, 210, 0, 0, 0>> =>
               /\ uri \in {NoText, "urn:epc:id:sscc:0614141.1234567890"}
               /\ tag_uri \in {NoText, "urn:epc:tag:sscc-96:3.0614141.1234567890"}
               /\ gs1 \in {NoText, "(00) 106141412345678908"}

\* C11: a logistics-unit-96 payload (byte 0 = 0x31) with partition 0..6 is
\* rendered as urn:epc:id:sscc:<company, 12-p digits>.<indicator><serial
\* reference, 4+p digits>, urn:epc:tag:sscc-96:<filter>.<same fields> and
\* (00) followed by indicator, company, serial reference and check digit,
\* 18 digits in all; the payload 3174257BF4499602D2000000 gives
\* urn:epc:id:sscc:0614141.1234567890,
\* urn:epc:tag:sscc-96:3.0614141.1234567890 and (00) 106141412345678908.
C11_Sscc96 ==
    /\ Sscc96Shape
    /\ (DecodedBinary /\ Len(data) > 0 /\ data[1] = 49 /\ result.kind = "Ok") =>
           LET v == result.value IN
           1 + Len(DigitSeq(v.company, 12 - v.partition))
             + Len(DigitSeq(v.serial, 4 + v.partition)) + 1 = 18

\* The sum of the digits at the positions lo..hi of one parity, the
\* rightmost digit being at position 1.
RECURSIVE PositionSum(_, _, _, _)
PositionSum(digits, lo, hi, parity) ==
    IF lo > hi THEN 0
    ELSE IF lo = hi
    THEN (IF lo % 2 = parity THEN digits[Len(digits) + 1 - lo] ELSE 0)
    ELSE PositionSum(digits, lo, (lo + hi) \div 2, parity)
         + PositionSum(digits, (lo + hi) \div 2 + 1, hi, parity)

\* C12: for every string of decimal digits gs1_checksum returns
\* (10 - ((3*oddSum + evenSum) mod 10)) mod 10, the positions counted from
\* the rightmost digit starting at 1; the result is in 0..9,
\* gs1_checksum("0360843951968") = 0 and gs1_checksum("8061414112345") = 8.
C12_Checksum ==
    (pc = "done" /\ entry = "gs1_checksum") =>
        LET oddSum  == PositionSum(arg, 1, Len(arg), 1)
            evenSum == PositionSum(arg, 1, Len(arg), 0) IN
        /\ ret = Return((10 - ((3 * oddSum + evenSum) % 10)) % 10)
        /\ ret.value \in 0..9
        /\ arg = <<0, 3, 6, 0, 8, 4, 3, 9, 5, 1, 9, 6, 8>> => ret.value = 0
        /\ arg = <<8, 0, 6, 1, 4, 1, 4, 1, 1, 2, 3, 4, 5>> => ret.value = 8

\* The same, where the sums stay in the range of the 16-bit accumulators.
ChecksumWithinU16 ==
    (pc = "done" /\ entry = "gs1_checksum" /\ ~gs1_checksum_overflows(arg))
        => C12_Checksum

\* The buffer with the three bits behind the header byte replaced by f.
WithFilter(bytes, f) == [bytes EXCEPT ![2] = f * 32 + (bytes[2] % 32)]

\* The decoding of another buffer through the entry point of this state.
Redecode(bytes) ==
    CASE entry = "decode_binary" -> decode_binary(bytes)
      [] entry = "decode_grai96" -> decode_grai96(Tail(bytes))
      [] entry = "decode_gid96" -> decode_gid96(Tail(bytes))

\* The layouts that carry a filter.
FilteredTypes == {"SGTIN96", "SGTIN198", "SSCC96", "GRAI96"}

\* The number of characters of a tag URI in front of its filter segment.
TagPrefixLen(type) ==
    CASE type = "SGTIN96" -> Len("urn:epc:tag:sgtin-96:")
      [] type = "SGTIN198" -> Len("urn:epc:tag:sgtin-198:")
      [] type = "SSCC96" -> Len("urn:epc:tag:sscc-96:")
      [] type = "GRAI96" -> Len("urn:epc:tag:grai-96:")

\* The filter segment (one digit, the filter having 3 bits) of a tag URI,
\* and the tag URI without it.
FilterSegment(tag, type) ==
    SubSeq(tag, TagPrefixLen(type) + 1, TagPrefixLen(type) + 1)

WithoutFilterSegment(tag, type) ==
    SubSeq(tag, 1, TagPrefixLen(type))
    \o SubSeq(tag, TagPrefixLen(type) + 2, Len(tag))

DecodedFiltered ==
    /\ pc = "decoded"
    /\ Len(data) >= 2
    /\ result.kind = "Ok"
    /\ result.value.type \in FilteredTypes

\* C13: the filter never reaches the identity URI or the element string.
\* Two payloads of the same filtered layout (SGTIN-96, SGTIN-198, SSCC-96,
\* GRAI-96) that differ only in their 3 filter bits decode to identifiers
\* with equal identity URIs and equal element strings, and their tag URIs
\* differ only in the filter segment.
C13_FilterConfined ==
    DecodedFiltered =>
        \A f \in 0..7 :
            LET v     == result.value
                other == Redecode(WithFilter(data, f))
                w     == other.value IN
            /\ other.kind = "Ok"
            /\ w.type = v.type
            /\ to_uri(w) = to_uri(v)
            /\ uri # NoText => uri = to_uri(w)
            /\ HasGS1(v) => to_gs1(w) = to_gs1(v)
            /\ gs1 # NoText => gs1 = to_gs1(w)
            /\ WithoutFilterSegment(to_tag_uri(w), w.type)
                   = WithoutFilterSegment(to_tag_uri(v), v.type)
            /\ FilterSegment(to_tag_uri(w), w.type) = Dec(f)
            /\ tag_uri # NoText =>
                   /\ FilterSegment(tag_uri, v.type) = Dec(FilterOf(data))
                   /\ WithoutFilterSegment(tag_uri, v.type)
                          = WithoutFilterSegment(to_tag_uri(w), w.type)

\* An SSCC-96 payload of filter 3 whose three texts have been produced; the
\* payloads of the other seven filters are its companions.
C13_Witness ==
    /\ DecodedFiltered
    /\ result.value.type = "SSCC96"
    /\ FilterOf(data) = 3
    /\ Redecode(WithFilter(data, 5)).kind = "Ok"
    /\ Redecode(WithFilter(data, 5)).value.filter = 5
    /\ uri # NoText
    /\ tag_uri # NoText
    /\ gs1 # NoText

\* floor(r / 10^k), r mod 10^k and x * 10^k, computed digit by digit (10^k
\* itself may be larger than every r that is tried).
RECURSIVE DivPow10(_, _)
DivPow10(r, k) == IF k = 0 THEN r ELSE DivPow10(r \div 10, k - 1)

RECURSIVE ModPow10(_, _)
ModPow10(r, k) ==
    IF k = 0 THEN 0 ELSE (r % 10) + 10 * ModPow10(r \div 10, k - 1)

RECURSIVE TimesPow10(_, _)
TimesPow10(x, k) == IF x = 0 \/ k = 0 THEN x ELSE TimesPow10(10 * x, k - 1)

ExtractedIndicator ==
    pc = "done" /\ entry \in {"extract_indicator", "sgtin_extract_indicator"}

\* The digit-count of the call: given, or the partition's (p + 1).
DigitCount ==
    IF entry = "extract_indicator" THEN arg.item_digits ELSE arg.partition + 1

\* C14: for every raw item field r and digit-count d >= 2 with r < 10^d,
\* indicator extraction returns indicator = floor(r / 10^(d-1)) and
\* item = r mod 10^(d-1); the indicator is in 0..9 and
\* indicator * 10^(d-1) + item = r.
C14_IndicatorSplit ==
    (ExtractedIndicator /\ DigitCount >= 2 /\ NumDigits(arg.item) <= DigitCount) =>
        LET r == arg.item
            d == DigitCount IN
        /\ ret.kind = "Ok"
        /\ ret.value.indicator = DivPow10(r, d - 1)
        /\ ret.value.item = ModPow10(r, d - 1)
        /\ ret.value.indicator \in 0..9
        /\ TimesPow10(ret.value.indicator, d - 1) + ret.value.item = r

\* A raw field of six digits, split into indicator 2 and item 62143.
C14_Witness ==
    /\ ExtractedIndicator
    /\ entry = "extract_indicator"
    /\ arg = [item |-> 262143, item_digits |-> 6]
    /\ ret = Ok([item |-> 62143, indicator |-> 2])

\* C15: indicator extraction returns a parse error only when the
\* digit-count is 1, where the characters left after the indicator are
\* empty; for every digit-count >= 2 (the logistics-unit family has 5..11)
\* and every raw value it succeeds, and in the trade-item family it fails
\* only at partition 0 (digit-count 1).
C15_IndicatorErrors ==
    ExtractedIndicator =>
        LET r == arg.item
            d == DigitCount IN
        /\ ret.kind \in {"Ok", "Err"}
        /\ ret.kind = "Err" =>
               /\ ret.error = "ParseIntError"
               /\ d = 1
               /\ NumDigits(r) = 1
        /\ d >= 2 => ret.kind = "Ok"
        /\ (d = 1 /\ r < 10) => ret.kind = "Err"
        /\ (entry = "sgtin_extract_indicator" /\ ret.kind = "Err") =>
               arg.partition = 0

\* The trade-item extraction at partition 0 on a one-digit raw field.
C15_Witness ==
    /\ ExtractedIndicator
    /\ entry = "sgtin_extract_indicator"
    /\ arg = [item |-> 7, partition |-> 0]
    /\ ret = Err("ParseIntError")

\* The number of whole 7-bit characters within the remaining bits and the
\* budget of a call of read_string, and their values in order.
CharCount ==
    LET left == 8 * Len(arg.reader.bytes) - arg.reader.position IN
    (IF left < arg.bits THEN left ELSE arg.bits) \div 7

CharsRead ==
    [k \in 1..CharCount |->
        SliceValue(arg.reader.bytes, arg.reader.position + 7 * (k - 1), 7)]

\* C16: alphanumeric serial reading consumes exactly
\* floor(min(remaining_bits, bit_budget) / 7) seven-bit characters in order
\* and returns the non-zero ones in their original order; a character of
\* value 0 is dropped wherever it occurs, no non-zero character is dropped
\* or reordered, and with the 140-bit budget the serial has at most 20
\* characters.
C16_ReadString ==
    (pc = "done" /\ entry = "read_string") =>
        /\ ret = Ok(SelectSeq(CharsRead, NonZero))
        /\ Len(ret.value) <= CharCount
        /\ arg.bits = 140 => Len(ret.value) <= 20

\* Three characters read, the middle one zero: the two others are returned.
C16_Witness ==
    /\ pc = "done"
    /\ entry = "read_string"
    /\ arg.reader.position = 3
    /\ CharCount = 3
    /\ CharsRead = <<47, 0, 97>>
    /\ ret = Ok(<<47, 97>>)

\* Twenty characters returned from more than 140 remaining bits.
ReadStringBudgetReached ==
    /\ pc = "done"
    /\ entry = "read_string"
    /\ 8 * Len(arg.reader.bytes) - arg.reader.position >= 147
    /\ ret.kind = "Ok"
    /\ Len(ret.value) = 20

\* The bits a fixed-width layout holds behind its header byte.
LayoutBits(header) ==
    CASE header = 48 -> 3 + 3 + 44 + 38
      [] header = 49 -> 3 + 3 + 58
      [] header = 51 -> 3 + 3 + 44 + 38
      [] header = 53 -> 28 + 24 + 36

\* A buffer of a fixed-width layout, of a valid partition where the layout
\* has one and the buffer reaches it, with fewer bits behind the header than
\* the layout holds.
Truncated(bytes) ==
    /\ Len(bytes) >= 1
    /\ bytes[1] \in {48, 49, 51, 53}
    /\ (bytes[1] # 53 /\ Len(bytes) >= 2) => PartitionOf(bytes) \in 0..6
    /\ 8 * (Len(bytes) - 1) < LayoutBits(bytes[1])

\* C17: for every fixed-width decoder (SGTIN-96, SSCC-96, GID-96, GRAI-96)
\* and every valid partition, if the bytes after the header hold fewer bits
\* than the sum of the widths of the fields the decoder reads (88 bits for
\* SGTIN-96, GID-96 and GRAI-96), decode_binary returns a parse failure; it
\* never returns an identifier with a truncated or defaulted field.
C17_TruncatedFails ==
    (DecodedBinary /\ Truncated(data)) => IsParseFailure(result)

\* The part of it that does not depend on the dispatcher: no entry point
\* returns an identifier for a truncated buffer, and the decoders that are
\* reached return a parse failure.
TruncatedNeverDecodes ==
    (pc = "decoded" /\ Truncated(data)) =>
        /\ result.kind = "Err"
        /\ (entry # "decode_binary" \/ data[1] \in {48, 49}) =>
               result.error = "BitReaderError"

RECURSIVE SumSeq(_)
SumSeq(q) == IF q = <<>> THEN 0 ELSE Head(q) + SumSeq(Tail(q))

\* C18: over a buffer of L bytes, after any sequence of successful reads
\* of widths n1..nk the cursor offset is n1+...+nk and
\* remaining() = 8*L - (n1+...+nk); the i-th read returned the ni bits that
\* start at offset n1+...+n(i-1), most significant bit first, as an
\* unsigned integer, also across byte boundaries; a read of n bits with
\* n > remaining() fails with insufficient data.
C18_BitCursor ==
    (pc = "reading" /\ entry = "BitReader") =>
        /\ ret.reader.position = SumSeq(ret.widths)
        /\ remaining(ret.reader) = 8 * Len(arg) - SumSeq(ret.widths)
        /\ Len(ret.values) = Len(ret.widths)
        /\ \A i \in 1..Len(ret.widths) :
               ret.values[i] =
                   SliceValue(arg, SumSeq(SubSeq(ret.widths, 1, i - 1)), ret.widths[i])
        /\ ret.last.kind # "None" =>
               (ret.last.kind = "Err" <=> ret.last.n > ret.last.before)

\* Three reads of 3, 7 and 3 bits over 0x74 0xA5, the second across the
\* byte boundary, and then a read of 7 bits that fails on the 3 that remain.
C18_Witness ==
    /\ pc = "reading"
    /\ entry = "BitReader"
    /\ arg = <<116, 165>>
    /\ ret.widths = <<3, 7, 3>>
    /\ ret.values = <<3, 82, 4>>
    /\ ret.last = [n |-> 7, before |-> 3, kind |-> "Err"]
    /\ remaining(ret.reader) = 3

\* The digits of a text from character i up to the first character that
\* is not a digit.
IsDigitAt(text, i) ==
    i <= Len(text) /\ \E d \in 0..9 : SubSeq(text, i, i) = DigitChar[d + 1]

RECURSIVE DigitRun(_, _)
DigitRun(text, i) ==
    IF ~IsDigitAt(text, i) THEN <<>>
    ELSE <<CHOOSE d \in 0..9 : SubSeq(text, i, i) = DigitChar[d + 1]>>
         \o DigitRun(text, i + 1)

ElementStringMade ==
    /\ pc = "decoded"
    /\ gs1 # NoText
    /\ result.value.type \in {"SGTIN96", "SSCC96"}

\* C19: in every element string the Application Identifier is two digits
\* in parentheses (00 for SSCC, 01 for GTIN, 21 for the serial number), and
\* the digit behind the indicator+company+item digits is gs1_checksum of
\* exactly that digit string, so the run with its check digit passes the
\* mod-10 check: counted from the right with the check digit at position 1,
\* 3 * (sum of the digits at even positions) + (sum of the digits at odd
\* positions) is a multiple of 10.
C19_ElementString ==
    ElementStringMade =>
        LET v    == result.value
            p    == v.partition
            run  == DigitRun(gs1, 6)
            body == SubSeq(run, 1, Len(run) - 1)
            rest == SubSeq(gs1, 6 + Len(run), Len(gs1)) IN
        /\ Len(run) >= 2
        /\ run[Len(run)] = gs1_checksum(body)
        /\ (3 * PositionSum(run, 1, Len(run), 0)
              + PositionSum(run, 1, Len(run), 1)) % 10 = 0
        /\ v.type = "SSCC96" =>
               /\ SubSeq(gs1, 1, 5) = "(00) "
               /\ body = <<v.indicator>> \o DigitSeq(v.company, 12 - p)
                             \o DigitSeq(v.serial, 4 + p)
               /\ rest = ""
        /\ v.type = "SGTIN96" =>
               /\ SubSeq(gs1, 1, 5) = "(01) "
               /\ body = <<v.indicator>> \o DigitSeq(v.company, 12 - p)
                             \o DigitSeq(v.item, p)
               /\ rest = " (21) " \o Dec(v.serial)

\* The element string of the trade-item payload of the decode test.
C19_Witness ==
    /\ ElementStringMade
    /\ data = <<48, 116, 37, 123, 247, 25, 78, 64, 0, 0, 26, 133>>
    /\ gs1 = "(01) 80614141123458 (21) 6789"
    /\ DigitRun(gs1, 6) = <<8, 0, 6, 1, 4, 1, 4, 1, 1, 2, 3, 4, 5, 8>>

\* The sum of the two widths of a row of a partition table.
RowSum(row) == row[1] + row[2]

PartitionedDecoded ==
    /\ pc = "decoded"
    /\ Len(data) >= 2
    /\ data[1] \in {48, 54, 49, 51}
    /\ PartitionOf(data) \in 0..6

\* C20: within each partitioned family the widths of the two partitioned
\* fields sum to the same constant for every partition 0..6, so the fields
\* read after the partition selector always end at the same bit offset: 44
\* bits for the trade-item family, 58 bits for the logistics-unit family
\* (the last 24 bits of the 96 stay unread), 44 bits for the
\* returnable-asset family.
C20_WidthSums ==
    PartitionedDecoded =>
        LET p == PartitionOf(data) IN
        /\ data[1] \in {48, 54} => RowSum(sgtin_partition_bits(p).value) = 44
        /\ data[1] = 49 => RowSum(sscc_partition_bits(p).value) = 58
        /\ data[1] = 51 =>
               decode_partition_value(p).value.company_prefix.bits
                   + decode_partition_value(p).value.asset_type.bits = 44

\* The same without row 6 of the logistics-unit table.
WidthSumsBesidesSscc6 ==
    (PartitionedDecoded /\ ~(data[1] = 49 /\ PartitionOf(data) = 6))
        => C20_WidthSums

\* The company segment and the indicator+item segment of a trade-item
\* identity URI: the digit runs behind "urn:epc:id:sgtin:" and behind the
\* dot that follows the first.
SgtinCompanySegment(text) == DigitRun(text, Len("urn:epc:id:sgtin:") + 1)

SgtinItemSegment(text) ==
    DigitRun(text, Len("urn:epc:id:sgtin:") + Len(SgtinCompanySegment(text)) + 2)

Sgtin96Decoded ==
    /\ DecodedBinary
    /\ Len(data) > 0
    /\ data[1] = 48
    /\ result.kind = "Ok"

\* The digit-counts of the texts of a trade-item-96 identifier.
Sgtin96DigitCounts ==
    LET p == result.value.partition IN
    /\ uri # NoText =>
           /\ Len(SgtinCompanySegment(uri)) = 12 - p
           /\ Len(SgtinItemSegment(uri)) = p + 1
           /\ Len(SgtinCompanySegment(uri)) + Len(SgtinItemSegment(uri)) = 13
    /\ gs1 # NoText => Len(DigitRun(gs1, 6)) = 14

\* C21: for every payload that decodes as a trade-item-96 identifier,
\* whatever the raw field values, the company segment of the identity URI
\* has exactly 12 - partition digits and the indicator+item segment exactly
\* partition + 1 digits, so the two total 13 digits and the GTIN of the
\* element string has exactly 14 digits.
C21_Sgtin96Digits == Sgtin96Decoded => Sgtin96DigitCounts

\* The raw company and item fields of a trade-item-96 buffer.
RawCompany(bytes) == SliceValue(bytes, 14, CompanyBits[PartitionOf(bytes) + 1])

RawItem(bytes) ==
    SliceValue(bytes, 14 + CompanyBits[PartitionOf(bytes) + 1],
               44 - CompanyBits[PartitionOf(bytes) + 1])

\* The same for the payloads whose raw fields have no more digits than the
\* partition gives them.
Sgtin96DigitsOfFittingFields ==
    (/\ Sgtin96Decoded
     /\ NumDigits(RawCompany(data)) <= 12 - PartitionOf(data)
     /\ NumDigits(RawItem(data)) <= PartitionOf(data) + 1)
        => Sgtin96DigitCounts

\* A returnable-asset-96 identifier decoded by decode_grai96 whose raw
\* company and asset-type values have no more digits than row p gives them
\* (12 - p and p).
Grai96DecodedFitting ==
    /\ pc = "decoded"
    /\ entry = "decode_grai96"
    /\ result.kind = "Ok"
    /\ NumDigits(result.value.company_prefix) <= 12 - result.value.partition
    /\ NumDigits(result.value.asset_type) <= result.value.partition

\* C22: for every decoded returnable-asset-96 identifier whose raw company
\* and asset-type values fit the digit-counts of its partition row, the
\* identity URI and the tag URI render the company prefix zero-padded to the
\* row's company digit-count and the asset type zero-padded to its
\* asset-type digit-count, so the two segments total 12 digits (a company
\* prefix with a leading zero keeps it).
C22_Grai96Padded ==
    Grai96DecodedFitting =>
        LET v   == result.value
            p   == v.partition
            seg == DecPad(v.company_prefix, 12 - p) \o "." \o DecPad(v.asset_type, p)
                   \o "." \o Dec(v.serial) IN
        /\ Len(DigitSeq(v.company_prefix, 12 - p)) + Len(DigitSeq(v.asset_type, p)) = 12
        /\ uri # NoText => uri = "urn:epc:id:grai:" \o seg
        /\ tag_uri # NoText =>
               tag_uri = "urn:epc:tag:grai-96:" \o Dec(v.filter) \o "." \o seg

\* What the two texts are: the three numbers as they are, without padding;
\* they are the padded texts when both values have all their digits.
Grai96Unpadded ==
    (pc = "decoded" /\ entry = "decode_grai96" /\ result.kind = "Ok") =>
        LET v   == result.value
            seg == Dec(v.company_prefix) \o "." \o Dec(v.asset_type)
                   \o "." \o Dec(v.serial) IN
        /\ uri # NoText => uri = "urn:epc:id:grai:" \o seg
        /\ tag_uri # NoText =>
               tag_uri = "urn:epc:tag:grai-96:" \o Dec(v.filter) \o "." \o seg
        /\ (/\ NumDigits(v.company_prefix) = 12 - v.partition
            /\ NumDigits(v.asset_type) = v.partition) => C22_Grai96Padded

\* A trade-item-198 buffer whose filter, partition (0..6), company and item
\* fields are all there (50 bits behind the header) and whose item field
\* yields an indicator: at partition 0 a raw item below 10 does not.
Sgtin198FieldsRead(bytes) ==
    /\ Len(bytes) >= 8
    /\ bytes[1] = 54
    /\ PartitionOf(bytes) \in 0..6
    /\ PartitionOf(bytes) = 0 => RawItem(bytes) >= 10

\* C23: a trade-item-198 payload never fails for lack of serial bits: once
\* filter, partition (0..6), company and item have been read and the
\* indicator extracted, decode succeeds for every number of remaining bits
\* from 0 to 140 and beyond, the serial being built from
\* floor(min(remaining, 140) / 7) characters; a truncated buffer yields a
\* shorter (possibly empty) serial, not an insufficient-data failure.
C23_Sgtin198Truncated ==
    (DecodedBinary /\ Sgtin198FieldsRead(data)) =>
        /\ result.kind = "Ok"
        /\ result.value.type = "SGTIN198"
        /\ result.value.serial = SerialChars(data)
        /\ Len(result.value.serial) <= SerialCharCount(data)
        /\ SerialCharCount(data) =
               (IF 8 * (Len(data) - 1) - 50 < 140
                THEN 8 * (Len(data) - 1) - 50 ELSE 140) \div 7

\* The test payload cut to 10 bytes: 22 bits are left for the serial, and
\* its first three characters "32a" are the serial.
C23_Witness ==
    /\ DecodedBinary
    /\ Sgtin198FieldsRead(data)
    /\ data = <<54, 116, 37, 123, 246, 183, 166, 89, 178, 194>>
    /\ SerialCharCount(data) = 3
    /\ result.kind = "Ok"
    /\ result.value.serial = <<51, 50, 97>>

\* A buffer that ends 6 bits behind the item field: the serial is empty.
Sgtin198EmptySerial ==
    /\ DecodedBinary
    /\ Sgtin198FieldsRead(data)
    /\ Len(data) = 8
    /\ result = Ok([result.value EXCEPT !.serial = <<>>])

====
